---- MODULE Spec2Model ----
(***************************************************************************)
(* Model of AssetCrafter (src/assetcrafter.py): the Asset / AssetMap       *)
(* entities, tile selection, create_icon, create_map and the build         *)
(* orchestrator main().                                                    *)
(*                                                                         *)
(* An image is the record                                                  *)
(*   [id, box, width, height, mode, bbox]                                  *)
(* id and box say which pixels it holds (the file they were read from and  *)
(* the rectangle of that file), width/height/mode are PIL's size and mode, *)
(* and bbox is what Image.getbbox() returns: the rectangle <<x0,y0,x1,y1>> *)
(* of non-empty content in the image's own coordinates, or <<>> for None.  *)
(* Images are drawn with rectangular content, so the content of a crop is  *)
(* the intersection of the content with the crop box.                      *)
(***************************************************************************)
EXTENDS Integers, Sequences, FiniteSets, TLC

VARIABLES
    am,         \* SpecTile: the AssetMap under test
    sel,        \* SpecTile: the last select() call and what it returned
    icon_call,  \* SpecIcon: the arguments of the create_icon call
    icon_ret,   \* SpecIcon: its outcome
    map_call,   \* SpecMap: the arguments of the create_map call
    map_ret,    \* SpecMap: its outcome
    config,     \* SpecBuild: the parsed assets.json
    env,        \* SpecBuild: the state of the working directory
    assets,     \* SpecBuild: main()'s name -> Asset table
    pc,         \* SpecBuild: main()'s position
    idx,        \* SpecBuild: index of the next entry of the current loop
    out,        \* SpecBuild: the files of the out/ directory, in the order written
    log,        \* SpecBuild: the messages printed
    outcome     \* SpecBuild: whether main() is running, has returned or has raised

vars == <<am, sel, icon_call, icon_ret, map_call, map_ret,
          config, env, assets, pc, idx, out, log, outcome>>

tileVars == <<am, sel>>
iconVars == <<icon_call, icon_ret>>
mapVars == <<map_call, map_ret>>
buildVars == <<config, env, assets, pc, idx, out, log, outcome>>

-----------------------------------------------------------------------------
(* Bounds *)

\* SpecTile: pixel sizes 1..MaxPix, grids 1..MaxDiv
MaxPix == 4
MaxDiv == 3
\* SpecMap / SpecIcon: pixel sizes and grids 1..MaxDim, at most MaxSources
\* sources, content grids of at most MaxCells cells
MaxDim == 2
MaxSources == 2
MaxCells == 2
\* SpecIcon: target boxes 1..MaxIcon
MaxIcon == 3
\* SpecBuild: at most MaxArtifacts artifact entries and MaxOutputs output
\* entries in the manifest
MaxArtifacts == 1
MaxOutputs == 2

-----------------------------------------------------------------------------
(* Helpers *)

Min(a, b) == IF a <= b THEN a ELSE b
Max(a, b) == IF a >= b THEN a ELSE b

\* Python's tuple order on pairs, used by max() over a set of sizes
TupleLess(s, t) == s[1] < t[1] \/ (s[1] = t[1] /\ s[2] < t[2])

NoBox == <<>>

\* A fresh image file of the given size whose content is the rectangle bb
FileImage(id, w, h, mode, bb) ==
    [id |-> id, box |-> <<0, 0, w, h>>, width |-> w, height |-> h,
     mode |-> mode, bbox |-> bb]

\* PIL Image.crop(box): the pixels of box, of size (x1 - x0, y1 - y0); the
\* content of the crop is the content that falls inside box
Crop(img, b) ==
    LET bb == img.bbox
        ix0 == IF bb = NoBox THEN 0 ELSE Max(bb[1], b[1])
        iy0 == IF bb = NoBox THEN 0 ELSE Max(bb[2], b[2])
        ix1 == IF bb = NoBox THEN 0 ELSE Min(bb[3], b[3])
        iy1 == IF bb = NoBox THEN 0 ELSE Min(bb[4], b[4])
    IN  [id |-> img.id,
         box |-> <<img.box[1] + b[1], img.box[2] + b[2],
                   img.box[1] + b[3], img.box[2] + b[4]>>,
         width |-> b[3] - b[1], height |-> b[4] - b[2],
         mode |-> img.mode,
         bbox |-> IF bb = NoBox \/ ix0 >= ix1 \/ iy0 >= iy1 THEN NoBox
                  ELSE <<ix0 - b[1], iy0 - b[2], ix1 - b[1], iy1 - b[2]>>]

-----------------------------------------------------------------------------
(* Asset and AssetMap *)

Asset(image) == [kind |-> "Asset", image |-> image, rows |-> 0, cols |-> 0]

AssetMap(image, rows, cols) ==
    [kind |-> "AssetMap", image |-> image, rows |-> rows, cols |-> cols]

format(asset) == asset.image.mode

size(asset) == <<asset.image.width, asset.image.height>>

\* a mutation of tile_size: rows and cols exchanged
tile_size_swapped(asset) ==
    <<asset.image.width \div asset.rows, asset.image.height \div asset.cols>>

tile_size(asset) ==
    <<asset.image.width \div asset.cols, asset.image.height \div asset.rows>>

select(asset, row, col) ==
    LET width == tile_size(asset)[1]
        height == tile_size(asset)[2]
        x == width * col
        y == height * row
    IN  Asset(Crop(asset.image, <<x, y, x + width, y + height>>))

get_tile_size(asset) ==
    IF asset.kind = "AssetMap" THEN tile_size(asset) ELSE size(asset)

NoAsset == [kind |-> "none", image |-> FileImage(0, 0, 0, "RGB", NoBox),
            rows |-> 0, cols |-> 0]

-----------------------------------------------------------------------------
(* create_icon *)

\* Image.Resampling.NEAREST unless scaling is absent or scaling["smooth"]
resampling_filter(scaling) ==
    IF scaling = "absent" \/ scaling = "smooth" THEN "default" ELSE "NEAREST"

\* source.image.crop(source.image.getbbox()): crop(None) is a copy
icon_content(source) ==
    IF source.image.bbox = NoBox THEN source.image
    ELSE Crop(source.image, source.image.bbox)

NoIcon == [status |-> "none", ret |-> NoAsset, resized |-> <<0, 0>>,
           at |-> <<0, 0>>, filter |-> "default"]

\* The call's outcome: status "ok" with the returned Asset, or the exception
\* raised.  min(width / ow, height / oh) is compared exactly, by cross
\* multiplication, and int() truncates; resize() rejects an empty size.
create_icon(source, width, height, scaling) ==
    LET content == icon_content(source)
        ow == content.width
        oh == content.height
        by_width == width * oh <= height * ow
        nw == IF by_width THEN width ELSE (ow * height) \div oh
        nh == IF by_width THEN (oh * width) \div ow ELSE height
        ox == (width - nw) \div 2
        oy == (height - nh) \div 2
        icon == [id |-> content.id, box |-> content.box,
                 width |-> width, height |-> height, mode |-> "RGBA",
                 bbox |-> IF content.bbox = NoBox THEN NoBox
                          ELSE <<ox, oy, ox + nw, oy + nh>>]
    IN  IF ow = 0 \/ oh = 0
        THEN [NoIcon EXCEPT !.status = "ZeroDivisionError"]
        ELSE IF nw = 0 \/ nh = 0
        THEN [NoIcon EXCEPT !.status = "ValueError"]
        ELSE [status |-> "ok", ret |-> Asset(icon), resized |-> <<nw, nh>>,
              at |-> <<ox, oy>>, filter |-> resampling_filter(scaling)]

-----------------------------------------------------------------------------
(* create_map *)

\* a mutation of map_format: only the first source is looked at
map_format_first(sources) ==
    IF format(sources[1]) = "RGBA" THEN "RGBA" ELSE "RGB"

\* line 69: "RGBA" if any source of the list is RGBA
map_format(sources) ==
    IF \E i \in 1..Len(sources) : format(sources[i]) = "RGBA"
    THEN "RGBA" ELSE "RGB"

\* a mutation of unified_tile_size: the first source's tile size
unified_tile_size_first(sources) == get_tile_size(sources[1])

\* line 70: max() of the set of native tile sizes, in Python's tuple order
unified_tile_size(sources) ==
    LET sizes == { get_tile_size(sources[i]) : i \in 1..Len(sources) }
    IN  CHOOSE s \in sizes : \A t \in sizes : t = s \/ TupleLess(t, s)

\* lines 75-78 for one cell: the tile looked up and where it is pasted
map_paste(sources, tile, row, col, tile_width, tile_height) ==
    LET source == sources[tile[1] + 1]
        picked == IF source.kind = "AssetMap"
                  THEN select(source, tile[2], tile[3]) ELSE source
    IN  [image |-> picked.image, at |-> <<col * tile_width, row * tile_height>>]

NoMap == [status |-> "none", ret |-> NoAsset, pastes |-> <<>>,
          tile |-> <<0, 0>>]

\* content is a non-empty rectangular grid of tiles <<index, row, col>>,
\* zero-based as in the manifest.  pastes lists the pastes in the order the
\* loops make them (row-major).  The content of the composed image is taken
\* to be the whole canvas as soon as one pasted tile has content.
create_map(sources, content) ==
    IF Len(sources) = 0
    THEN [NoMap EXCEPT !.status = "ValueError"]
    ELSE
    LET format_ == map_format(sources)
        tile_width == unified_tile_size(sources)[1]
        tile_height == unified_tile_size(sources)[2]
        ncols == Len(content[1])
        nrows == Len(content)
        width == tile_width * ncols
        height == tile_height * nrows
        pastes == [k \in 1..(nrows * ncols) |->
                     LET row == (k - 1) \div ncols
                         col == (k - 1) % ncols
                     IN  map_paste(sources, content[row + 1][col + 1],
                                   row, col, tile_width, tile_height)]
        filled == { k \in 1..(nrows * ncols) : pastes[k].image.bbox # NoBox }
        image == [id |-> 0, box |-> <<0, 0, width, height>>,
                  width |-> width, height |-> height, mode |-> format_,
                  bbox |-> IF filled = {} \/ width = 0 \/ height = 0
                           THEN NoBox ELSE <<0, 0, width, height>>]
    IN  IF \E r \in 1..nrows : \E c \in 1..ncols :
               content[r][c][1] + 1 > Len(sources)
        THEN [NoMap EXCEPT !.status = "IndexError"]
        ELSE IF tile_height = 0 \/ tile_width = 0
        THEN [NoMap EXCEPT !.status = "ZeroDivisionError",
                           !.tile = <<tile_width, tile_height>>]
        ELSE [status |-> "ok",
              ret |-> AssetMap(image, height \div tile_height,
                               width \div tile_width),
              pastes |-> pastes,
              tile |-> <<tile_width, tile_height>>]

-----------------------------------------------------------------------------
(* Values of the variables a specification does not use *)

NoSelect == [op |-> "none", row |-> 0, col |-> 0, size |-> <<0, 0>>, ret |-> NoAsset]

TileIdle == am = NoAsset /\ sel = NoSelect

NoIconCall == [source |-> NoAsset, width |-> 0, height |-> 0, scaling |-> "absent"]

IconIdle == icon_call = NoIconCall /\ icon_ret = NoIcon

NoMapCall == [sources |-> <<>>, content |-> <<>>]

MapIdle == map_call = NoMapCall /\ map_ret = NoMap

NoConfig == [sources |-> <<>>, artifacts |-> <<>>, output |-> <<>>]

BuildIdle ==
    /\ config = NoConfig /\ env = "idle" /\ assets = <<>> /\ pc = "idle"
    /\ idx = 0 /\ out = <<>> /\ log = <<>>
    /\ outcome = [status |-> "idle", why |-> ""]

-----------------------------------------------------------------------------
(* SpecTile: AssetMap.tile_size and AssetMap.select on every AssetMap of   *)
(* bounded size                                                            *)

TileMaps ==
    { AssetMap(FileImage(1, w, h, "RGBA", <<0, 0, w, h>>), r, c) :
        w \in 1..MaxPix, h \in 1..MaxPix, r \in 1..MaxDiv, c \in 1..MaxDiv }

\* the tile_size property is read
ReadTileSize ==
    /\ sel' = [op |-> "tile_size", row |-> 0, col |-> 0,
               size |-> tile_size(am), ret |-> NoAsset]
    /\ UNCHANGED am

\* select(row, col) is called; the indices are not validated
CallSelect ==
    \E row \in 0..(MaxDiv - 1), col \in 0..(MaxDiv - 1) :
        /\ sel' = [op |-> "select", row |-> row, col |-> col,
                   size |-> size(select(am, row, col)),
                   ret |-> select(am, row, col)]
        /\ UNCHANGED am

TileInit == am \in TileMaps /\ sel = NoSelect /\ IconIdle /\ MapIdle /\ BuildIdle

TileNext ==
    \/ ReadTileSize /\ UNCHANGED <<iconVars, mapVars, buildVars>>
    \/ CallSelect /\ UNCHANGED <<iconVars, mapVars, buildVars>>

SpecTile == TileInit /\ [][TileNext]_vars

\* C2: for every AssetMap of width W, height H, R rows and C columns,
\* tile_size is (W div C, H div R) and select(r, c) with 0 <= r < R and
\* 0 <= c < C returns a plain Asset holding the rectangle
\* [c*tw, c*tw + tw) x [r*th, r*th + th), which has exactly the tile size
\* and lies inside the image.
C2_TileGeometry ==
    LET W == am.image.width
        H == am.image.height
        tw == W \div am.cols
        th == H \div am.rows
        r == sel.row
        c == sel.col
        b == sel.ret.image.box
    IN  /\ sel.op = "tile_size" => sel.size = <<tw, th>>
        /\ (sel.op = "select" /\ r < am.rows /\ c < am.cols) =>
              /\ sel.ret.kind = "Asset"
              /\ b = <<c * tw, r * th, c * tw + tw, r * th + th>>
              /\ sel.size = <<tw, th>>
              /\ 0 <= b[1] /\ b[3] <= W /\ 0 <= b[2] /\ b[4] <= H

\* C2's case: the last tile of a grid that does not divide the image evenly
C2_Witness ==
    /\ sel.op = "select"
    /\ am.cols >= 2 /\ am.rows >= 2
    /\ am.image.width % am.cols # 0 /\ am.image.height % am.rows # 0
    /\ am.image.width # am.image.height /\ am.rows # am.cols
    /\ sel.row = am.rows - 1 /\ sel.col = am.cols - 1

-----------------------------------------------------------------------------
(* SpecIcon: one create_icon call on every source and target box of        *)
(* bounded size                                                            *)

Modes == {"RGB", "RGBA"}

\* every content rectangle of a w x h image, and None
BBoxes(w, h) ==
    {NoBox} \cup { b \in (0..w) \X (0..h) \X (0..w) \X (0..h) :
                      b[1] < b[3] /\ b[2] < b[4] }

IconImages ==
    UNION { { FileImage(1, w, h, m, bb) : bb \in BBoxes(w, h) } :
            w \in 1..MaxDim, h \in 1..MaxDim, m \in Modes }

\* main() lines 122-125: the source itself, or a tile of it
IconSources ==
    { Asset(img) : img \in IconImages }
    \cup { select(AssetMap(img, r, c), row, col) :
             img \in IconImages, r \in 1..MaxDim, c \in 1..MaxDim,
             row \in 0..(MaxDim - 1), col \in 0..(MaxDim - 1) }

IconCalls ==
    [source : IconSources, width : 1..MaxIcon, height : 1..MaxIcon,
     scaling : {"absent", "smooth", "sharp"}]

CallCreateIcon ==
    /\ icon_ret.status = "none"
    /\ icon_ret' = create_icon(icon_call.source, icon_call.width,
                               icon_call.height, icon_call.scaling)
    /\ UNCHANGED icon_call

IconInit ==
    /\ icon_call \in IconCalls /\ icon_ret = NoIcon
    /\ TileIdle /\ MapIdle /\ BuildIdle

IconNext == CallCreateIcon /\ UNCHANGED <<tileVars, mapVars, buildVars>>

SpecIcon == IconInit /\ [][IconNext]_vars

\* the source of the call has no content: getbbox() is None
IconSourceEmpty == icon_call.source.image.bbox = NoBox

\* C9: create_icon on a source with no non-transparent content fails with
\* an empty-source error; it neither divides by zero nor returns an icon.
C9_EmptySourceRejected ==
    (icon_ret.status # "none" /\ IconSourceEmpty) =>
        icon_ret.status = "EmptySourceError"

-----------------------------------------------------------------------------
(* SpecMap: one create_map call on every list of sources and content grid  *)
(* of bounded size                                                         *)

\* the sources a manifest can put at position i of the list: file i, of any
\* size and mode, plain or gridded
MapSourcesAt(i) ==
    { Asset(FileImage(i, w, h, m, <<0, 0, w, h>>)) :
        w \in 1..MaxDim, h \in 1..MaxDim, m \in Modes }
    \cup { AssetMap(FileImage(i, w, h, m, <<0, 0, w, h>>), r, c) :
        w \in 1..MaxDim, h \in 1..MaxDim, m \in Modes,
        r \in 1..MaxDim, c \in 1..MaxDim }

SourceLists ==
    UNION { { s \in [1..n -> UNION { MapSourcesAt(i) : i \in 1..n }] :
                \A i \in 1..n : s[i].image.id = i } : n \in 1..MaxSources }

\* the tiles a cell may name: a source index and, for an AssetMap, one of
\* its tiles
Tiles(sources) ==
    UNION { IF sources[i].kind = "AssetMap"
            THEN { <<i - 1, tr, tc>> : tr \in 0..(sources[i].rows - 1),
                                       tc \in 0..(sources[i].cols - 1) }
            ELSE { <<i - 1, 0, 0>> } : i \in 1..Len(sources) }

Shapes == { sh \in (1..MaxCells) \X (1..MaxCells) : sh[1] * sh[2] <= MaxCells }

Grids(tiles) == UNION { [1..sh[1] -> [1..sh[2] -> tiles]] : sh \in Shapes }

CallCreateMap ==
    /\ map_ret.status = "none"
    /\ map_ret' = create_map(map_call.sources, map_call.content)
    /\ UNCHANGED map_call

MapInit ==
    /\ \E s \in SourceLists : \E g \in Grids(Tiles(s)) :
          map_call = [sources |-> s, content |-> g]
    /\ map_ret = NoMap
    /\ TileIdle /\ IconIdle /\ BuildIdle

MapNext == CallCreateMap /\ UNCHANGED <<tileVars, iconVars, buildVars>>

SpecMap == MapInit /\ [][MapNext]_vars

MapCalled == map_ret.status # "none"

NativeSizes == { get_tile_size(map_call.sources[i]) :
                   i \in 1..Len(map_call.sources) }

\* the positions of the sources list some cell of content names
Referenced ==
    { map_call.content[r][c][1] + 1 :
        r \in 1..Len(map_call.content), c \in 1..Len(map_call.content[1]) }

\* C1: a create_map call in which two sources have different native tile
\* sizes fails with a size-mismatch error and returns no composed asset.
C1_SizeMismatchRejected ==
    (MapCalled /\ Cardinality(NativeSizes) > 1) =>
        /\ map_ret.status = "SizeMismatchError"
        /\ map_ret.ret = NoAsset

\* C3 as claimed: the output is RGB when every source a cell references is
\* opaque, and RGBA when some referenced source is RGBA; sources no cell
\* references do not matter.
C3_ModeFromReferenced ==
    map_ret.status = "ok" =>
        format(map_ret.ret) =
            IF \E i \in Referenced : format(map_call.sources[i]) = "RGBA"
            THEN "RGBA" ELSE "RGB"

\* C3 as amended: the output is RGBA exactly when some entry of the
\* sources list is RGBA, whether or not a cell references it, and RGB
\* otherwise.
C3_ModeFromSources ==
    map_ret.status = "ok" =>
        format(map_ret.ret) =
            IF \E i \in 1..Len(map_call.sources) :
                   format(map_call.sources[i]) = "RGBA"
            THEN "RGBA" ELSE "RGB"

\* C3's case: every referenced source is RGB, an unreferenced one is RGBA
C3_Witness ==
    /\ map_ret.status = "ok"
    /\ \A i \in Referenced : format(map_call.sources[i]) = "RGB"
    /\ \E i \in (1..Len(map_call.sources)) \ Referenced :
           format(map_call.sources[i]) = "RGBA"
    /\ format(map_ret.ret) = "RGBA"

\* C7: for sources sharing one tile size, create_map returns an AssetMap
\* with as many rows and columns as content has, also when the shared tile
\* width or height is 0.
C7_GridCounts ==
    (MapCalled /\ Cardinality(NativeSizes) = 1) =>
        /\ map_ret.status = "ok"
        /\ map_ret.ret.kind = "AssetMap"
        /\ map_ret.ret.rows = Len(map_call.content)
        /\ map_ret.ret.cols = Len(map_call.content[1])

Perms(n) == { p \in [1..n -> 1..n] : \A i, j \in 1..n : p[i] = p[j] => i = j }

\* the list with sources[p[k]] at position k
Permute(sources, p) == [k \in 1..Len(sources) |-> sources[p[k]]]

\* content with every source index moved to where p put that source
Remap(content, p) ==
    [r \in 1..Len(content) |->
        [c \in 1..Len(content[r]) |->
            LET t == content[r][c]
                k == CHOOSE k \in DOMAIN p : p[k] = t[1] + 1
            IN  <<k - 1, t[2], t[3]>>]]

\* C8: permuting the sources list and remapping the indices of content
\* accordingly gives the same outcome: the same mode, canvas size and
\* row/column counts, and the same tile pasted at the same offset in every
\* cell.
C8_PermutationInvariant ==
    MapCalled =>
        \A p \in Perms(Len(map_call.sources)) :
            create_map(Permute(map_call.sources, p),
                       Remap(map_call.content, p)) = map_ret

\* C8's case: a successful call on two sources that differ in mode and in
\* kind, both referenced
C8_Witness ==
    /\ map_ret.status = "ok"
    /\ Len(map_call.sources) = 2
    /\ Referenced = {1, 2}
    /\ format(map_call.sources[1]) # format(map_call.sources[2])
    /\ map_call.sources[1].kind # map_call.sources[2].kind
    /\ size(map_call.sources[1]) # size(map_call.sources[2])

\* C10: in a successful call the unified tile size is at least every
\* source's native tile size in both width and height, so every pasted
\* tile fits its grid cell.
C10_TilesFitCell ==
    map_ret.status = "ok" =>
        /\ \A s \in NativeSizes :
               s[1] <= map_ret.tile[1] /\ s[2] <= map_ret.tile[2]
        /\ \A k \in 1..Len(map_ret.pastes) :
               /\ map_ret.pastes[k].image.width <= map_ret.tile[1]
               /\ map_ret.pastes[k].image.height <= map_ret.tile[2]

-----------------------------------------------------------------------------
(* SpecBuild: main() on every manifest of bounded size                     *)

\* src/<path>.png: "tiles" is an image, "broken" is a file PIL cannot
\* identify, "ghost" does not exist
Disk == [p \in {"tiles"} |-> FileImage(1, 2, 2, "RGBA", <<0, 0, 2, 2>>)]

NoGrid == <<>>

\* Asset.__init__ / AssetMap.__init__ from a path: Image.open's outcome
open_asset(source) ==
    IF source.path \in DOMAIN Disk
    THEN [status |-> "ok", why |-> "",
          asset |-> IF source.grid # NoGrid
                    THEN AssetMap(Disk[source.path], source.grid[1], source.grid[2])
                    ELSE Asset(Disk[source.path])]
    ELSE IF source.path = "ghost"
    THEN [status |-> "raised", why |-> "FileNotFoundError", asset |-> NoAsset]
    ELSE [status |-> "raised", why |-> "UnidentifiedImageError", asset |-> NoAsset]

\* a mutation of load_source: FileNotFoundError is not caught
load_source_uncaught(source) == open_asset(source)

\* lines 107-113: the Asset or AssetMap of one source entry;
\* FileNotFoundError, and no other exception, is caught
load_source(source) ==
    IF open_asset(source).why = "FileNotFoundError"
    THEN [status |-> "missing", why |-> "", asset |-> NoAsset]
    ELSE open_asset(source)

Raised(why) == [status |-> "raised", why |-> why, asset |-> NoAsset]

\* lines 117-131 for one artifact entry: the asset to store under its name,
\* the early return, or the exception that leaves main()
run_artifact(artifact, table) ==
    IF \E i \in 1..Len(artifact.sources) : artifact.sources[i] \notin DOMAIN table
    THEN Raised("KeyError")
    ELSE
    LET sources == [i \in 1..Len(artifact.sources) |-> table[artifact.sources[i]]]
    IN  CASE artifact.type = "icon" ->
               IF Len(sources) = 0 THEN Raised("IndexError")
               ELSE IF artifact.sel # NoGrid /\ sources[1].kind # "AssetMap"
               THEN Raised("AttributeError")
               ELSE
               LET source == IF artifact.sel # NoGrid
                             THEN select(sources[1], artifact.sel[1], artifact.sel[2])
                             ELSE sources[1]
                   icon == create_icon(source, artifact.attributes.width,
                                       artifact.attributes.height,
                                       artifact.attributes.scaling)
               IN  IF icon.status = "ok"
                   THEN [status |-> "ok", why |-> "", asset |-> icon.ret]
                   ELSE Raised(icon.status)
          [] artifact.type = "map" ->
               LET map == create_map(sources, artifact.attributes.content)
               IN  IF map.status = "ok"
                   THEN [status |-> "ok", why |-> "", asset |-> map.ret]
                   ELSE Raised(map.status)
          [] OTHER -> [status |-> "returned", why |-> "UnknownType",
                       asset |-> NoAsset]

NoFile == [name |-> "", image |-> NoAsset.image]

\* Asset.save: the image converted to format_, written as out/<name>.png
save(asset, name, format_) ==
    [name |-> name, image |-> [asset.image EXCEPT !.mode = format_]]

\* lines 138-143: the asset of a defined source, or its tile, saved
save_output(output, table) ==
    LET format_ == IF output.alpha THEN "RGBA" ELSE "RGB"
    IN  IF output.sel # NoGrid /\ table[output.source].kind # "AssetMap"
        THEN [status |-> "raised", why |-> "AttributeError", file |-> NoFile]
        ELSE
        LET asset == IF output.sel # NoGrid
                     THEN select(table[output.source], output.sel[1], output.sel[2])
                     ELSE table[output.source]
        IN  [status |-> "ok", why |-> "", file |-> save(asset, output.name, format_)]

\* a mutation of write_output: the table is indexed without the membership
\* test, as the artifacts loop does
write_output_unchecked(output, table) ==
    IF output.source \notin DOMAIN table
    THEN [status |-> "raised", why |-> "KeyError", file |-> NoFile]
    ELSE save_output(output, table)

\* lines 135-143 for one output entry: the file written, the early return,
\* or the exception that leaves main()
write_output(output, table) ==
    IF output.source \notin DOMAIN table
    THEN [status |-> "returned", why |-> "UndefinedSource", file |-> NoFile]
    ELSE save_output(output, table)

Running == [status |-> "running", why |-> ""]

\* the table with name bound to asset (a later entry replaces an earlier one)
Bind(table, name, asset) ==
    [n \in DOMAIN table \cup {name} |-> IF n = name THEN asset ELSE table[n]]

\* lines 86-101: the manifest is read and out/ is recreated
Start ==
    /\ pc = "start" /\ outcome.status = "running"
    /\ UNCHANGED <<config, assets, idx>>
    /\ CASE env = "no_config" ->
              /\ log' = Append(log, <<"Asset config not found", "assets.json">>)
              /\ outcome' = [status |-> "returned", why |-> "ConfigNotFound"]
              /\ UNCHANGED <<pc, out, env>>
         [] env = "config_is_dir" ->
              /\ log' = Append(log, <<"Asset config is a directory", "assets.json">>)
              /\ outcome' = [status |-> "returned", why |-> "ConfigIsDirectory"]
              /\ UNCHANGED <<pc, out, env>>
         [] env = "out_is_file" ->
              /\ log' = Append(log, <<"Cannot write output", "out">>)
              /\ outcome' = [status |-> "returned", why |-> "OutputPathBlocked"]
              /\ UNCHANGED <<pc, out, env>>
         [] env \in {"no_out", "out_is_dir"} ->
              /\ out' = <<>>
              /\ env' = "out_is_dir"
              /\ pc' = "sources"
              /\ UNCHANGED <<log, outcome>>

\* one iteration of the sources loop
LoadSource ==
    /\ pc = "sources" /\ outcome.status = "running"
    /\ idx < Len(config.sources)
    /\ LET source == config.sources[idx + 1]
           loaded == load_source(source)
       IN  CASE loaded.status = "ok" ->
                  /\ assets' = Bind(assets, source.name, loaded.asset)
                  /\ idx' = idx + 1
                  /\ UNCHANGED <<log, outcome>>
             [] loaded.status = "missing" ->
                  /\ log' = Append(log, <<"Missing source file", source.path>>)
                  /\ idx' = idx + 1
                  /\ UNCHANGED <<assets, outcome>>
             [] loaded.status = "raised" ->
                  /\ outcome' = [status |-> "raised", why |-> loaded.why]
                  /\ UNCHANGED <<assets, idx, log>>
    /\ UNCHANGED <<config, env, pc, out>>

\* the sources loop is exhausted
EndSources ==
    /\ pc = "sources" /\ outcome.status = "running"
    /\ idx = Len(config.sources)
    /\ pc' = "artifacts" /\ idx' = 0
    /\ UNCHANGED <<config, env, assets, out, log, outcome>>

\* one iteration of the artifacts loop
RunArtifact ==
    /\ pc = "artifacts" /\ outcome.status = "running"
    /\ idx < Len(config.artifacts)
    /\ LET artifact == config.artifacts[idx + 1]
           made == run_artifact(artifact, assets)
           note == IF artifact.type = "icon" /\ Len(artifact.sources) > 1
                      /\ \A i \in 1..Len(artifact.sources) :
                             artifact.sources[i] \in DOMAIN assets
                   THEN <<<<"Icon only uses the first source", artifact.name>>>>
                   ELSE <<>>
       IN  CASE made.status = "ok" ->
                  /\ assets' = Bind(assets, artifact.name, made.asset)
                  /\ idx' = idx + 1
                  /\ log' = log \o note
                  /\ UNCHANGED outcome
             [] made.status = "returned" ->
                  /\ log' = log \o note \o <<<<"Unknown artifact type", artifact.type>>>>
                  /\ outcome' = [status |-> "returned", why |-> made.why]
                  /\ UNCHANGED <<assets, idx>>
             [] made.status = "raised" ->
                  /\ log' = log \o note
                  /\ outcome' = [status |-> "raised", why |-> made.why]
                  /\ UNCHANGED <<assets, idx>>
    /\ UNCHANGED <<config, env, pc, out>>

\* the artifacts loop is exhausted
EndArtifacts ==
    /\ pc = "artifacts" /\ outcome.status = "running"
    /\ idx = Len(config.artifacts)
    /\ pc' = "output" /\ idx' = 0
    /\ UNCHANGED <<config, env, assets, out, log, outcome>>

\* one iteration of the output loop
WriteOutput ==
    /\ pc = "output" /\ outcome.status = "running"
    /\ idx < Len(config.output)
    /\ LET output == config.output[idx + 1]
           done == write_output(output, assets)
       IN  CASE done.status = "ok" ->
                  /\ out' = Append(out, done.file)
                  /\ idx' = idx + 1
                  /\ UNCHANGED <<log, outcome>>
             [] done.status = "returned" ->
                  /\ log' = Append(log, <<"Source undefined", output.source>>)
                  /\ outcome' = [status |-> "returned", why |-> done.why]
                  /\ UNCHANGED <<out, idx>>
             [] done.status = "raised" ->
                  /\ outcome' = [status |-> "raised", why |-> done.why]
                  /\ UNCHANGED <<out, idx, log>>
    /\ UNCHANGED <<config, env, assets, pc>>

\* the output loop is exhausted: main() falls off its end
EndOutput ==
    /\ pc = "output" /\ outcome.status = "running"
    /\ idx = Len(config.output)
    /\ outcome' = [status |-> "returned", why |-> "Complete"]
    /\ UNCHANGED <<config, env, assets, pc, idx, out, log>>

-----------------------------------------------------------------------------
(* The manifests.  Every manifest is built where out/ is a directory; the  *)
(* other states of the working directory are entered with the empty        *)
(* manifest.                                                               *)

SourceNames == {"a", "b"}

\* a source entry: name, path and, for an AssetMap, rows and cols
SourceEntries(name) ==
    [name : {name}, path : {"tiles", "ghost"}, grid : {NoGrid, <<1, 2>>}]
    \cup { [name |-> name, path |-> "broken", grid |-> NoGrid] }

\* the sources list: at most one entry per name, "a" before "b"
SourceConfigs ==
    {<<>>}
    \cup { <<x>> : x \in SourceEntries("a") \cup SourceEntries("b") }
    \cup { <<x, y>> : x \in SourceEntries("a"), y \in SourceEntries("b") }

\* the content of a map artifact: one row, one cell per source
ContentFor(names) == << [c \in 1..Len(names) |-> <<c - 1, 0, 0>>] >>

\* an artifact entry named "m": a map over its sources, an icon of the
\* first of them (or of its tile (0, 1)), or a type main() does not know
ArtifactEntries ==
    UNION { { [name |-> "m", sources |-> names, type |-> "map", sel |-> NoGrid,
               attributes |-> [content |-> ContentFor(names)]],
              [name |-> "m", sources |-> names, type |-> "icon", sel |-> NoGrid,
               attributes |-> [width |-> 2, height |-> 2, scaling |-> "absent"]],
              [name |-> "m", sources |-> names, type |-> "icon", sel |-> <<0, 1>>,
               attributes |-> [width |-> 2, height |-> 2, scaling |-> "sharp"]],
              [name |-> "m", sources |-> names, type |-> "glow", sel |-> NoGrid,
               attributes |-> [content |-> <<>>]] } :
            names \in {<<"b">>, <<"a", "b">>} }

ArtifactConfigs == UNION { [1..n -> ArtifactEntries] : n \in 0..MaxArtifacts }

OutputName(i) == <<"out", i>>

\* an output entry: the whole asset saved opaque, or its tile (0, 1) saved
\* with alpha
OutputEntries(i) ==
    { [name |-> OutputName(i), source |-> n, sel |-> NoGrid, alpha |-> FALSE] :
        n \in SourceNames \cup {"m"} }
    \cup { [name |-> OutputName(i), source |-> n, sel |-> <<0, 1>>, alpha |-> TRUE] :
        n \in SourceNames \cup {"m"} }

OutputConfigs ==
    UNION { { o \in [1..n -> UNION { OutputEntries(i) : i \in 1..n }] :
                \A i \in 1..n : o[i].name = OutputName(i) } : n \in 0..MaxOutputs }

\* out/ before the build holds a file of an earlier build
StaleFile == [name |-> OutputName(0), image |-> Disk["tiles"]]

BuildInit ==
    /\ env \in {"no_config", "config_is_dir", "out_is_file", "no_out", "out_is_dir"}
    /\ IF env = "out_is_dir"
       THEN \E s \in SourceConfigs, a \in ArtifactConfigs, o \in OutputConfigs :
                config = [sources |-> s, artifacts |-> a, output |-> o]
       ELSE config = NoConfig
    /\ out = IF env = "out_is_dir" THEN <<StaleFile>> ELSE <<>>
    /\ assets = <<>> /\ pc = "start" /\ idx = 0 /\ log = <<>>
    /\ outcome = Running
    /\ TileIdle /\ IconIdle /\ MapIdle

BuildNext ==
    \/ Start /\ UNCHANGED <<tileVars, iconVars, mapVars>>
    \/ LoadSource /\ UNCHANGED <<tileVars, iconVars, mapVars>>
    \/ EndSources /\ UNCHANGED <<tileVars, iconVars, mapVars>>
    \/ RunArtifact /\ UNCHANGED <<tileVars, iconVars, mapVars>>
    \/ EndArtifacts /\ UNCHANGED <<tileVars, iconVars, mapVars>>
    \/ WriteOutput /\ UNCHANGED <<tileVars, iconVars, mapVars>>
    \/ EndOutput /\ UNCHANGED <<tileVars, iconVars, mapVars>>

SpecBuild == BuildInit /\ [][BuildNext]_vars

Halted == outcome.status # "running"

Printed(message) == \E k \in 1..Len(log) : log[k] = message

\* C4: when an artifact lists a source name that is not in the asset
\* table, the build halts with an undefined-reference message and main()
\* returns normally.
C4_UndefinedStepSourceHalts ==
    (/\ pc = "artifacts" /\ Halted /\ idx < Len(config.artifacts)
     /\ \E i \in 1..Len(config.artifacts[idx + 1].sources) :
            config.artifacts[idx + 1].sources[i] \notin DOMAIN assets)
    => /\ outcome = [status |-> "returned", why |-> "UndefinedSource"]
       /\ \E i \in 1..Len(config.artifacts[idx + 1].sources) :
              Printed(<<"Source undefined", config.artifacts[idx + 1].sources[i]>>)

\* the source entries whose file is missing
SkippedEntries ==
    { i \in 1..Len(config.sources) : config.sources[i].path = "ghost" }

\* the names a source entry with a readable file defines
Loadable ==
    { config.sources[i].name :
        i \in { j \in 1..Len(config.sources) : config.sources[j].path \in DOMAIN Disk } }

\* whether the asset a manifest name stands for is an AssetMap
Gridded(name) ==
    IF \E k \in 1..Len(config.artifacts) : config.artifacts[k].name = name
    THEN LET last == CHOOSE k \in 1..Len(config.artifacts) :
                        /\ config.artifacts[k].name = name
                        /\ \A j \in (k + 1)..Len(config.artifacts) :
                               config.artifacts[j].name # name
         IN  config.artifacts[last].type = "map"
    ELSE \E i \in 1..Len(config.sources) :
             config.sources[i].name = name /\ config.sources[i].grid # NoGrid

\* the manifest has no defect but its missing files: every other file is an
\* image, every artifact has a known type, and every name an artifact or an
\* output uses is defined by a loaded source or an earlier artifact and has
\* the kind the use needs
ValidButForSkipped ==
    /\ \A i \in 1..Len(config.sources) : config.sources[i].path # "broken"
    /\ \A k \in 1..Len(config.artifacts) :
          LET a == config.artifacts[k]
          IN  /\ a.type \in {"icon", "map"}
              /\ \A i \in 1..Len(a.sources) : a.sources[i] \in Loadable
              /\ a.sel # NoGrid =>
                    \E i \in 1..Len(config.sources) :
                        /\ config.sources[i].name = a.sources[1]
                        /\ config.sources[i].grid # NoGrid
    /\ \A j \in 1..Len(config.output) :
          LET o == config.output[j]
          IN  /\ \/ o.source \in Loadable
                 \/ \E k \in 1..Len(config.artifacts) :
                        config.artifacts[k].name = o.source
              /\ o.sel # NoGrid => Gridded(o.source)

\* C5: a source entry whose file is missing is skipped without stopping
\* the build: a message is printed, its name is not added to the asset
\* table, every other source is still loaded, and in a manifest that is
\* otherwise valid and never uses the skipped name the build runs to
\* completion and writes every declared output.
C5_SkipContinues ==
    /\ (pc = "sources" /\ Halted) => (idx + 1) \notin SkippedEntries
    /\ pc \in {"artifacts", "output"} =>
          \A i \in 1..Len(config.sources) :
              /\ i \in SkippedEntries =>
                    /\ config.sources[i].name \notin DOMAIN assets
                    /\ Printed(<<"Missing source file", config.sources[i].path>>)
              /\ config.sources[i].path \in DOMAIN Disk =>
                    config.sources[i].name \in DOMAIN assets
    /\ (Halted /\ pc # "start" /\ SkippedEntries # {} /\ ValidButForSkipped) =>
          /\ outcome = [status |-> "returned", why |-> "Complete"]
          /\ Len(out) = Len(config.output)
          /\ \A j \in 1..Len(config.output) : out[j].name = config.output[j].name

\* C5's case: the first source was skipped, the second one loaded, an
\* artifact was built, and the build completed with two outputs written
C5_Witness ==
    /\ outcome = [status |-> "returned", why |-> "Complete"]
    /\ SkippedEntries = {1} /\ Len(config.sources) = 2
    /\ DOMAIN assets = {"b", "m"}
    /\ Len(out) = 2

\* C6: outputs are processed in manifest order and the build halts at the
\* first output whose source is not in the asset table: the outputs
\* declared before it are in out/, the failing output and those declared
\* after it are not, a message is printed and main() returns without
\* raising.
C6_HaltAtFirstUndefined ==
    pc = "output" =>
        /\ Len(out) = idx
        /\ \A j \in 1..idx :
               /\ out[j].name = config.output[j].name
               /\ config.output[j].source \in DOMAIN assets
        /\ \A j \in (idx + 1)..Len(config.output) :
               \A k \in 1..Len(out) : out[k].name # config.output[j].name
        /\ (/\ Halted /\ idx < Len(config.output)
            /\ config.output[idx + 1].source \notin DOMAIN assets)
           => /\ outcome = [status |-> "returned", why |-> "UndefinedSource"]
              /\ Printed(<<"Source undefined", config.output[idx + 1].source>>)
        /\ outcome.why = "UndefinedSource" =>
              /\ idx < Len(config.output)
              /\ config.output[idx + 1].source \notin DOMAIN assets

\* C6's case: one output was written, then the build halted at the second
C6_Witness ==
    /\ pc = "output" /\ outcome.why = "UndefinedSource"
    /\ idx = 1 /\ Len(out) = 1 /\ Len(config.output) = 2

====
